---- MODULE Spec2Model ----
(***************************************************************************)
(* Model of pkg/media/ivfwriter: an IVFWriter takes RTP packets (VP8 or    *)
(* AV1), reassembles coded frames and writes them to an IVF container on   *)
(* an io.Writer sink, patching the header on Close when the sink seeks.    *)
(***************************************************************************)
EXTENDS Integers, Sequences, FiniteSets, TLC

(* ------------------------------ bounds --------------------------------- *)
\* most frame slots (frames written plus frames dropped) of one session
MaxSlots == 2
\* most bytes the VP8 accumulation buffer holds
MaxFrameLen == 2
\* most sink operations (write, seek, close) that fail in one run
MaxFailures == 1
\* most options passed to NewWith
MaxOpts == 2
\* most OBUs the AV1 extractor returns for one packet
MaxObus == 2

(* --------------------------- program constants ------------------------- *)
defaultVP8ClockRate == 90000
mimeTypeVP8 == "video/VP8"
mimeTypeAV1 == "video/AV1"
ivfFileHeaderSignature == <<68, 75, 73, 70>>   \* "DKIF"
fourccVP80 == <<86, 80, 56, 48>>               \* "VP80"
fourccAV01 == <<65, 86, 48, 49>>               \* "AV01"
headerSize == 32
frameHeaderSize == 12
patchOffset == 16

errNone == "nil"
errFileNotOpened == "file not opened"
errCodecAlreadySet == "codec is already set"
errNoSuchCodec == "no codec for this MimeType"
errShortPacket == "short packet"
errExtractor == "obu extractor failed"
errWrite == "sink write failed"
errSeek == "sink seek failed"
errClose == "sink close failed"

(* ------------------------------ integers ------------------------------- *)
\* The checker's integers are 32-bit and signed, so a uint32 or uint64 of
\* the program is kept as its 16-bit limbs, low limb first: two limbs for
\* a uint32, four for a uint64.
Limb == 256 * 256
Min(a, b) == IF a < b THEN a ELSE b
Max(a, b) == IF a > b THEN a ELSE b

\* the uint32 / uint64 of a number below 2^31
Wide32(n) == <<n % Limb, n \div Limb>>
Wide64(n) == <<n % Limb, n \div Limb, 0, 0>>

\* uint32(c): the conversion keeps the low 32 bits
uint32(c) == SubSeq(c, 1, 2)

\* c + 1 in the width of c, wrapping to zero
RECURSIVE Inc(_)
Inc(c) ==
  IF c = <<>> THEN <<>>
  ELSE IF c[1] = Limb - 1 THEN <<0>> \o Inc(Tail(c))
  ELSE <<c[1] + 1>> \o Tail(c)

\* a + b in the width of a, wrapping; c is the carry into the low limb
RECURSIVE AddCarry(_, _, _)
AddCarry(a, b, c) ==
  IF a = <<>> THEN <<>>
  ELSE LET t == a[1] + b[1] + c
       IN <<t % Limb>> \o AddCarry(Tail(a), Tail(b), t \div Limb)
Add(a, b) == AddCarry(a, b, 0)

\* a - b in uint32 arithmetic, for a and b below 2^31
Sub32(a, b) ==
  IF a >= b THEN Wide32(a - b)
  ELSE LET m == b - a - 1
       IN <<(Limb - 1) - (m % Limb), (Limb - 1) - (m \div Limb)>>

\* the number a limb string stands for, when it is below 2^31
RECURSIVE IsZero(_)
IsZero(c) == c = <<>> \/ (c[1] = 0 /\ IsZero(Tail(c)))
IsSmall(c) == Len(c) < 2 \/ (c[2] < Limb \div 2 /\ IsZero(SubSeq(c, 3, Len(c))))
RECURSIVE Value(_)
Value(c) == IF IsZero(c) THEN 0 ELSE c[1] + Limb * Value(Tail(c))

\* binary.LittleEndian.PutUint16 / PutUint32 / PutUint64: low byte first
PutUint16(n) == <<n % 256, (n \div 256) % 256>>
RECURSIVE PutLimbs(_)
PutLimbs(c) == IF c = <<>> THEN <<>> ELSE PutUint16(c[1]) \o PutLimbs(Tail(c))
PutUint32(c) == PutLimbs(SubSeq(c, 1, 2))
PutUint64(c) == PutLimbs(SubSeq(c, 1, 4))

\* the reader's side: the 16-bit limbs of a little-endian byte string
Limbs(s) == [i \in 1..(Len(s) \div 2) |-> s[2 * i - 1] + 256 * s[2 * i]]

\* the reader's side: the little-endian value of a byte string (below 2^31)
RECURSIVE Uint(_)
Uint(s) ==
  IF \A i \in 1..Len(s) : s[i] = 0 THEN 0 ELSE s[1] + 256 * Uint(Tail(s))

(* -------------------------------- sink --------------------------------- *)
\* An io.Writer, optionally an io.WriteSeeker and an io.Closer.  A sink is
\* [bytes, pos, writes, seeks, closes]: its content, its write offset and
\* the number of Write, Seek and Close calls it has received.
NewSink == [bytes |-> <<>>, pos |-> 0, writes |-> 0, seeks |-> 0, closes |-> 0]

\* the bytes of s with p stored at offset pos (0-based), extending s
StoreAt(s, pos, p) ==
  [i \in 1..Max(Len(s), pos + Len(p)) |->
     IF i > pos /\ i <= pos + Len(p) THEN p[i - pos] ELSE s[i]]

\* io.Writer.Write(p).  fail = TRUE: the call returns an error after having
\* stored only the first k bytes of p (k < len(p), the io.Writer contract).
SinkWrite(snk, p, fail, k) ==
  LET n == IF fail THEN Min(k, Len(p) - 1) ELSE Len(p)
      q == SubSeq(p, 1, n)
  IN [snk EXCEPT !.bytes = StoreAt(snk.bytes, snk.pos, q),
                 !.pos = snk.pos + n,
                 !.writes = snk.writes + 1]

\* io.Seeker.Seek(offset, io.SeekStart); a failed seek leaves the offset
SinkSeek(snk, offset, fail) ==
  [snk EXCEPT !.pos = IF fail THEN snk.pos ELSE offset,
              !.seeks = snk.seeks + 1]

\* io.Closer.Close()
SinkClose(snk) == [snk EXCEPT !.closes = snk.closes + 1]

(* ------------------------------- header -------------------------------- *)
\* writeHeader's 32 bytes for a session with the given codec flags
IVFHeader(vp8, av1) ==
  ivfFileHeaderSignature
    \o PutUint16(0)
    \o PutUint16(32)
    \o (IF vp8 THEN fourccVP80 ELSE IF av1 THEN fourccAV01 ELSE <<0, 0, 0, 0>>)
    \o PutUint16(640)
    \o PutUint16(480)
    \o PutUint32(Wide32(24))
    \o PutUint32(Wide32(1))
    \o PutUint32(Wide32(900))
    \o PutUint32(Wide32(0))

(* ------------------------------ framerate ------------------------------ *)
\* framerate.GetBestMatch(clockRate * frameCount / span) with the rate kept
\* as the fraction n / span: the pair of the lowest denominator up to
\* maxDenominator whose nearest numerator is within 1/tolerance of the rate,
\* else the nearest pair of denominator maxDenominator.  With span = 0 the
\* rate is +Inf or NaN and the result is not determined: any of
\* undefinedRates.  A span of 2^31 or more (lastTimestamp behind
\* firstTimestamp) makes the rate of every n the model reaches less than
\* 1/tolerance, whose best match is 0/1.  A rate beyond the uint32 range
\* (n = overRate) has no numerator that fits: any of undefinedRates.
maxDenominator == 4
tolerance == 100
undefinedRates == {<<0, 0>>, <<0, 1>>}
overRate == 0 - 1
Nearest(n, d, q) == (2 * n * q + d) \div (2 * d)
Dist(a, b) == IF a < b THEN b - a ELSE a - b
Within(n, d, q) == Dist(Nearest(n, d, q) * d, n * q) * tolerance <= q * d
GetBestMatch(n, span) ==
  IF IsZero(span) \/ n = overRate THEN undefinedRates
  ELSE IF ~IsSmall(span) THEN {<<0, 1>>}
  ELSE LET d == Value(span)
           good == {q \in 1..maxDenominator : Within(n, d, q)}
           q == IF good = {} THEN maxDenominator
                ELSE CHOOSE x \in good : \A y \in good : x <= y
       IN {<<Nearest(n, d, q), q>>}

(* ------------------------------- options ------------------------------- *)
\* WithCodec without the check that a codec is already set
WithCodec_NoRebindCheck(w, mimeType) ==
  IF mimeType = mimeTypeVP8
    THEN [w EXCEPT !.isVP8 = TRUE,
                   !.clockRate = IF w.clockRate = 0 THEN defaultVP8ClockRate
                                 ELSE w.clockRate]
  ELSE IF mimeType = mimeTypeAV1 THEN [w EXCEPT !.isAV1 = TRUE]
  ELSE [w EXCEPT !.err = errNoSuchCodec]

\* WithCodec(mimeType) applied to the writer fields w = [isVP8, isAV1,
\* clockRate, err]
WithCodec(w, mimeType) ==
  IF w.isVP8 \/ w.isAV1 THEN [w EXCEPT !.err = errCodecAlreadySet]
  ELSE IF mimeType = mimeTypeVP8
    THEN [w EXCEPT !.isVP8 = TRUE,
                   !.clockRate = IF w.clockRate = 0 THEN defaultVP8ClockRate
                                 ELSE w.clockRate]
  ELSE IF mimeType = mimeTypeAV1 THEN [w EXCEPT !.isAV1 = TRUE]
  ELSE [w EXCEPT !.err = errNoSuchCodec]

\* WithClockRate(clockRate)
WithClockRate(w, rate) == [w EXCEPT !.clockRate = rate]

ApplyOption(w, o) ==
  IF o.kind = "codec" THEN WithCodec(w, o.mime) ELSE WithClockRate(w, o.rate)

\* NewWith's loop over opts: stops at the first option that fails
RECURSIVE ApplyOptions(_, _)
ApplyOptions(w, os) ==
  IF os = <<>> THEN w
  ELSE LET w1 == ApplyOption(w, os[1])
       IN IF w1.err # errNone THEN w1 ELSE ApplyOptions(w1, Tail(os))

\* NewWith's default: VP8 at 90000 Hz when no option chose a codec
DefaultCodec(w) ==
  IF ~w.isAV1 /\ ~w.isVP8
    THEN [w EXCEPT !.isVP8 = TRUE,
                   !.clockRate = IF w.clockRate = 0 THEN defaultVP8ClockRate
                                 ELSE w.clockRate]
  ELSE w

(* ----------------------------- frame writes ---------------------------- *)
\* a frame header whose PTS is the counter after its increment
FrameHeader_PtsAfterIncrement(frame, fc) ==
  PutUint32(Wide32(Len(frame))) \o PutUint64(Inc(fc))

\* a frame header whose length counts the header itself
FrameHeader_LengthWithHeader(frame, fc) ==
  PutUint32(Wide32(Len(frame) + frameHeaderSize)) \o PutUint64(fc)

\* a frame header whose PTS keeps the low 32 bits of the counter
FrameHeader_Pts32(frame, fc) ==
  PutUint32(Wide32(Len(frame))) \o PutUint32(uint32(fc)) \o <<0, 0, 0, 0>>

\* the 12-byte frame header: length, then the frame-slot counter as PTS
FrameHeader(frame, fc) == PutUint32(Wide32(Len(frame))) \o PutUint64(fc)

\* a writeFrame that counts the frame only once both writes succeeded
writeFrame_CountOnSuccess(snk, fc, frame, failIdx, k) ==
  LET s1 == SinkWrite(snk, FrameHeader(frame, fc), failIdx = 1, k)
      s2 == SinkWrite(s1, frame, failIdx = 2, k)
  IN IF failIdx = 1
       THEN [snk |-> s1, frameCount |-> fc, err |-> errWrite]
       ELSE [snk |-> s2, frameCount |-> IF failIdx = 2 THEN fc ELSE Inc(fc),
             err |-> IF failIdx = 2 THEN errWrite ELSE errNone]

\* writeFrame(frame) on sink snk with counter fc.  failIdx names the Write
\* call that fails (1 the frame header, 2 the frame bytes, anything else
\* none); the counter is incremented before the first Write.
writeFrame(snk, fc, frame, failIdx, k) ==
  LET s1 == SinkWrite(snk, FrameHeader(frame, fc), failIdx = 1, k)
      s2 == SinkWrite(s1, frame, failIdx = 2, k)
  IN IF failIdx = 1
       THEN [snk |-> s1, frameCount |-> Inc(fc), err |-> errWrite]
       ELSE [snk |-> s2, frameCount |-> Inc(fc),
             err |-> IF failIdx = 2 THEN errWrite ELSE errNone]

\* a loop that writes the first OBU and drops the rest
writeFrames_FirstOnly(snk, fc, obus, j, failAt, k) ==
  IF j > Len(obus)
    THEN [snk |-> snk, frameCount |-> fc, err |-> errNone, done |-> j - 1]
  ELSE LET r == writeFrame(snk, fc, obus[j], failAt - 2 * (j - 1), k)
       IN [snk |-> r.snk, frameCount |-> r.frameCount, err |-> r.err,
           done |-> IF r.err # errNone THEN j - 1 ELSE j]

\* the AV1 loop "for j := range obus": writeFrame for each OBU from the
\* j-th on, returning at the first error; failAt numbers the Write calls
\* of the whole loop.  done counts the frames written completely.
RECURSIVE writeFrames(_, _, _, _, _, _)
writeFrames(snk, fc, obus, j, failAt, k) ==
  IF j > Len(obus)
    THEN [snk |-> snk, frameCount |-> fc, err |-> errNone, done |-> j - 1]
  ELSE LET r == writeFrame(snk, fc, obus[j], failAt - 2 * (j - 1), k)
       IN IF r.err # errNone
            THEN [snk |-> r.snk, frameCount |-> r.frameCount,
                  err |-> r.err, done |-> j - 1]
            ELSE writeFrames(r.snk, r.frameCount, obus, j + 1, failAt, k)

(* ----------------------------- VP8 packets ----------------------------- *)
\* codecs.VP8Packet.Unmarshal on an RTP payload whose descriptor has no
\* extension (X = 0): one descriptor byte carrying S in bit 4, then the VP8
\* payload, which must not be empty.
VP8Unmarshal(raw) ==
  IF Len(raw) < 2 THEN [err |-> errShortPacket, S |-> 0, Payload |-> <<>>]
  ELSE [err |-> errNone, S |-> (raw[1] \div 16) % 2, Payload |-> Tail(raw)]

\* vp8Packet.Payload[0] & 0x01: 0 on a keyframe
isKeyFrame(payload) == payload[1] % 2

\* a switch that lets packets through before the first keyframe
discardBeforeSync_Never(seen, key) == FALSE

\* the switch of WriteRTP: TRUE when the packet is discarded
discardBeforeSync(seen, key) == ~seen /\ key = 1

\* a switch that lets a frame start at a packet that starts no partition
discardMidPartition_Never(cur, S) == FALSE

discardMidPartition(cur, S) == cur = <<>> /\ S # 1
discard(seen, cur, S, key) ==
  discardBeforeSync(seen, key) \/ discardMidPartition(cur, S)

\* currentFrame after a frame was written without error
frameAfterWrite(cur) == <<>>

\* a VP8 branch that buffers the payload of a packet it could not parse
vp8WriteRTP_AppendUnparsed(s, pkt, failIdx, k) ==
  LET v == VP8Unmarshal(pkt.Payload)
      quiet == s @@ [err |-> errNone, wrote |-> FALSE]
  IN IF v.err # errNone
       THEN [quiet EXCEPT !.err = v.err,
                          !.currentFrame = s.currentFrame \o pkt.Payload]
     ELSE IF discard(s.seenKeyFrame, s.currentFrame, v.S, isKeyFrame(v.Payload))
       THEN quiet
     ELSE
       LET first == IF ~s.seenKeyFrame THEN pkt.Timestamp ELSE s.firstTimestamp
           cur == s.currentFrame \o v.Payload
           acc == [quiet EXCEPT !.seenKeyFrame = TRUE,
                                !.firstTimestamp = first,
                                !.currentFrame = cur]
           r == writeFrame(s.snk, s.frameCount, cur, failIdx, k)
       IN IF ~pkt.Marker \/ Len(cur) = 0 THEN acc
          ELSE IF r.err # errNone
            THEN [acc EXCEPT !.snk = r.snk, !.frameCount = r.frameCount,
                             !.err = r.err, !.wrote = TRUE]
          ELSE [acc EXCEPT !.snk = r.snk, !.frameCount = r.frameCount,
                           !.wrote = TRUE,
                           !.lastTimestamp = pkt.Timestamp,
                           !.currentFrame = frameAfterWrite(cur)]

\* a VP8 branch that buffers the payload of a packet the switch discards
vp8WriteRTP_BufferDiscarded(s, pkt, failIdx, k) ==
  LET v == VP8Unmarshal(pkt.Payload)
      quiet == s @@ [err |-> errNone, wrote |-> FALSE]
  IN IF v.err # errNone THEN [quiet EXCEPT !.err = v.err]
     ELSE IF discard(s.seenKeyFrame, s.currentFrame, v.S, isKeyFrame(v.Payload))
       THEN [quiet EXCEPT !.currentFrame = s.currentFrame \o v.Payload]
     ELSE
       LET first == IF ~s.seenKeyFrame THEN pkt.Timestamp ELSE s.firstTimestamp
           cur == s.currentFrame \o v.Payload
           acc == [quiet EXCEPT !.seenKeyFrame = TRUE,
                                !.firstTimestamp = first,
                                !.currentFrame = cur]
           r == writeFrame(s.snk, s.frameCount, cur, failIdx, k)
       IN IF ~pkt.Marker \/ Len(cur) = 0 THEN acc
          ELSE IF r.err # errNone
            THEN [acc EXCEPT !.snk = r.snk, !.frameCount = r.frameCount,
                             !.err = r.err, !.wrote = TRUE]
          ELSE [acc EXCEPT !.snk = r.snk, !.frameCount = r.frameCount,
                           !.wrote = TRUE,
                           !.lastTimestamp = pkt.Timestamp,
                           !.currentFrame = frameAfterWrite(cur)]

\* a VP8 branch that takes firstTimestamp again at every frame start
vp8WriteRTP_FirstAtEveryFrame(s, pkt, failIdx, k) ==
  LET v == VP8Unmarshal(pkt.Payload)
      quiet == s @@ [err |-> errNone, wrote |-> FALSE]
  IN IF v.err # errNone THEN [quiet EXCEPT !.err = v.err]
     ELSE IF discard(s.seenKeyFrame, s.currentFrame, v.S, isKeyFrame(v.Payload))
       THEN quiet
     ELSE
       LET first == IF s.currentFrame = <<>> THEN pkt.Timestamp
                    ELSE s.firstTimestamp
           cur == s.currentFrame \o v.Payload
           acc == [quiet EXCEPT !.seenKeyFrame = TRUE,
                                !.firstTimestamp = first,
                                !.currentFrame = cur]
           r == writeFrame(s.snk, s.frameCount, cur, failIdx, k)
       IN IF ~pkt.Marker \/ Len(cur) = 0 THEN acc
          ELSE IF r.err # errNone
            THEN [acc EXCEPT !.snk = r.snk, !.frameCount = r.frameCount,
                             !.err = r.err, !.wrote = TRUE]
          ELSE [acc EXCEPT !.snk = r.snk, !.frameCount = r.frameCount,
                           !.wrote = TRUE,
                           !.lastTimestamp = pkt.Timestamp,
                           !.currentFrame = frameAfterWrite(cur)]

\* The VP8 branch of WriteRTP on the session fields s = [seenKeyFrame,
\* currentFrame, firstTimestamp, lastTimestamp, frameCount, snk] for a
\* packet pkt = [Payload, Marker, Timestamp]; the result adds err and
\* wrote (TRUE when writeFrame was called).
vp8WriteRTP(s, pkt, failIdx, k) ==
  LET v == VP8Unmarshal(pkt.Payload)
      quiet == s @@ [err |-> errNone, wrote |-> FALSE]
  IN IF v.err # errNone THEN [quiet EXCEPT !.err = v.err]
     ELSE IF discard(s.seenKeyFrame, s.currentFrame, v.S, isKeyFrame(v.Payload))
       THEN quiet
     ELSE
       LET first == IF ~s.seenKeyFrame THEN pkt.Timestamp ELSE s.firstTimestamp
           cur == s.currentFrame \o v.Payload
           acc == [quiet EXCEPT !.seenKeyFrame = TRUE,
                                !.firstTimestamp = first,
                                !.currentFrame = cur]
           r == writeFrame(s.snk, s.frameCount, cur, failIdx, k)
       IN IF ~pkt.Marker \/ Len(cur) = 0 THEN acc
          ELSE IF r.err # errNone
            THEN [acc EXCEPT !.snk = r.snk, !.frameCount = r.frameCount,
                             !.err = r.err, !.wrote = TRUE]
          ELSE [acc EXCEPT !.snk = r.snk, !.frameCount = r.frameCount,
                           !.wrote = TRUE,
                           !.lastTimestamp = pkt.Timestamp,
                           !.currentFrame = frameAfterWrite(cur)]

(* ------------------------------- inputs -------------------------------- *)
Timestamps == {3000, 6000}
ClockRates == {90000}
MimeTypes == {mimeTypeVP8, mimeTypeAV1, "video/H264"}
Options ==
  [kind : {"codec"}, mime : MimeTypes, rate : {0}]
    \cup [kind : {"clock"}, mime : {""}, rate : ClockRates]
OptionLists == UNION {[1..n -> Options] : n \in 0..MaxOpts}

\* the sinks handed to NewWith: absent (nil), or an io.Writer.  A writer
\* may also be an io.Seeker and an io.Closer; the program learns which only
\* when Close probes it, so the model settles the two capabilities there.
Outs == {"nil", "writer"}
Caps == [probed : {TRUE}, seeker : BOOLEAN, closer : BOOLEAN]
Unprobed == [probed |-> FALSE, seeker |-> FALSE, closer |-> FALSE]

\* RTP payloads of a VP8 stream: empty, a lone descriptor, or a descriptor
\* (S = 0 or S = 1) followed by one VP8 payload byte (0x10 starts a
\* keyframe, 0x11 does not)
VP8Payloads ==
  {<<>>, <<16>>} \cup {<<d, b>> : d \in {0, 16}, b \in {16, 17}}
VP8Packets == [Payload : VP8Payloads, Marker : BOOLEAN, Timestamp : Timestamps]

\* RTP packets of an AV1 stream, with what the parser and the OBU extractor
\* (pion's codecs.AV1Packet and frame.AV1, external to this package) make of
\* them: a parse error, an extractor error, or the OBUs the extractor yields
OBUs == {<<10>>, <<18, 0>>}
ObuLists == UNION {[1..n -> OBUs] : n \in 0..MaxObus}
AV1Outcomes ==
  [err : {errShortPacket, errExtractor}, obus : {<<>>}]
    \cup [err : {errNone}, obus : ObuLists]

(* -------------------------------- state -------------------------------- *)
VARIABLES
  phase,           \* "new" before NewWith, "open" once it returned a writer,
                   \* "failed" when it returned an error
  out,             \* the sink passed to NewWith (an element of Outs)
  caps,            \* its capabilities, Unprobed until Close probes them
  codecOpts,       \* the mime types of the WithCodec options passed to
                   \* NewWith, in the order of the option list
  sink,            \* the sink's content, offset and call counts
  ioWriter,        \* "out" while the writer holds the sink, "nil" otherwise
  seenKeyFrame, isVP8, isAV1, currentFrame, frameCount,
  clockRate, firstTimestamp, lastTimestamp,
  lastOp,          \* the operation that ran last
  lastErr,         \* and the error it returned
  closeErr,        \* "open" until Close ran, then the first Close's result
  emitted,         \* frames written completely: [at, pts, payload] and, of
                   \* the run they came from, [want, first, markers]
  run,             \* VP8 packets taken into the frame being assembled
  calls,           \* number of writeFrame calls so far
  drops,           \* number of FrameDropped calls so far
  slotsAtClose,    \* calls + drops when Close first ran
  anyKey,          \* some VP8 packet so far had keyframe bit 0
  synced,          \* some VP8 packet so far had keyframe bit 0 and S = 1
  tsIn,            \* Timestamp of the packet the codec branch of WriteRTP
                   \* took last (0 before the first)
  obusIn,          \* number of OBUs the extractor returned in the last
                   \* WriteRTP call an open writer took
  emptyIn,         \* the last operation was a WriteRTP on an open writer
                   \* with a zero-length payload
  failures         \* sink operations that have failed

vars ==
  <<phase, out, caps, codecOpts, sink, ioWriter, seenKeyFrame, isVP8, isAV1,
    currentFrame, frameCount, clockRate, firstTimestamp, lastTimestamp,
    lastOp, lastErr, closeErr, emitted, run, calls, drops, slotsAtClose,
    anyKey, synced, tsIn, obusIn, emptyIn, failures>>

session == <<seenKeyFrame, isVP8, isAV1, currentFrame, frameCount,
             clockRate, firstTimestamp, lastTimestamp>>
history == <<emitted, run, calls, drops, slotsAtClose, anyKey, synced,
             tsIn, obusIn>>

Init ==
  /\ phase = "new"
  /\ out = "nil"
  /\ caps = Unprobed
  /\ codecOpts = <<>>
  /\ sink = NewSink
  /\ ioWriter = "nil"
  /\ seenKeyFrame = FALSE /\ isVP8 = FALSE /\ isAV1 = FALSE
  /\ currentFrame = <<>> /\ frameCount = Wide64(0)
  /\ clockRate = 0 /\ firstTimestamp = 0 /\ lastTimestamp = 0
  /\ lastOp = "none" /\ lastErr = errNone /\ closeErr = "open"
  /\ emitted = <<>> /\ run = <<>> /\ calls = 0 /\ drops = 0
  /\ slotsAtClose = 0 /\ anyKey = FALSE /\ synced = FALSE
  /\ tsIn = 0 /\ obusIn = 0 /\ emptyIn = FALSE /\ failures = 0

\* a sink operation may fail only while the run has failures to spare
MayFail(fail) == fail => failures < MaxFailures

(* ------------------------------ NewWith -------------------------------- *)
\* writeHeader: one Write of the 32 header bytes
writeHeader(snk, vp8, av1, fail, k) == SinkWrite(snk, IVFHeader(vp8, av1), fail, k)

\* NewWith that writes the header before it applies the options
newWith_HeaderFirst(o, os, fail, k) ==
  LET w0 == [isVP8 |-> FALSE, isAV1 |-> FALSE, clockRate |-> 0, err |-> errNone]
      w1 == ApplyOptions(w0, os)
      w2 == DefaultCodec(w1)
      snk == writeHeader(NewSink, w2.isVP8, w2.isAV1, fail, k)
  IN IF o = "nil" THEN [w0 EXCEPT !.err = errFileNotOpened] @@ [snk |-> NewSink]
     ELSE IF w1.err # errNone THEN w1 @@ [snk |-> snk]
     ELSE [w2 EXCEPT !.err = IF fail THEN errWrite ELSE errNone] @@ [snk |-> snk]

\* NewWith(o, os): the writer fields after the options and the default
\* codec, the sink after writeHeader, and the error returned
newWith(o, os, fail, k) ==
  LET w0 == [isVP8 |-> FALSE, isAV1 |-> FALSE, clockRate |-> 0, err |-> errNone]
      w1 == ApplyOptions(w0, os)
      w2 == DefaultCodec(w1)
  IN IF o = "nil" THEN [w0 EXCEPT !.err = errFileNotOpened] @@ [snk |-> NewSink]
     ELSE IF w1.err # errNone THEN w1 @@ [snk |-> NewSink]
     ELSE [w2 EXCEPT !.err = IF fail THEN errWrite ELSE errNone]
            @@ [snk |-> writeHeader(NewSink, w2.isVP8, w2.isAV1, fail, k)]

\* the mime types of the codec options of an option list, in order
RECURSIVE CodecsOf(_)
CodecsOf(os) ==
  IF os = <<>> THEN <<>>
  ELSE (IF os[1].kind = "codec" THEN <<os[1].mime>> ELSE <<>>) \o CodecsOf(Tail(os))

NewWith ==
  /\ phase = "new"
  /\ \E o \in Outs, os \in OptionLists, fail \in BOOLEAN, k \in {0, 31} :
       /\ MayFail(fail)
       /\ fail => o # "nil"
       /\ ~fail => k = 0
       /\ LET r == newWith(o, os, fail, k)
          IN /\ out' = o
             /\ codecOpts' = CodecsOf(os)
             /\ sink' = r.snk
             /\ lastErr' = r.err
             /\ failures' = IF r.err = errWrite THEN failures + 1 ELSE failures
             /\ IF r.err = errNone
                  THEN /\ phase' = "open"
                       /\ ioWriter' = "out"
                       /\ isVP8' = r.isVP8
                       /\ isAV1' = r.isAV1
                       /\ clockRate' = r.clockRate
                  ELSE /\ phase' = "failed"
                       /\ UNCHANGED <<ioWriter, isVP8, isAV1, clockRate>>
  /\ lastOp' = "NewWith"
  /\ emptyIn' = FALSE
  /\ UNCHANGED <<caps, seenKeyFrame, currentFrame, frameCount, firstTimestamp,
                 lastTimestamp, closeErr, history>>

(* ------------------------------ WriteRTP ------------------------------- *)
\* the packet's part in the frame being assembled, as the stream defines
\* it: a run opens at a start-of-partition packet (a keyframe's, until the
\* stream is in sync) and takes every later packet until it is emitted
runAfter(pkt) ==
  LET v == VP8Unmarshal(pkt.Payload)
      p == [S |-> v.S, Marker |-> pkt.Marker, Payload |-> v.Payload]
  IN IF v.err # errNone THEN run
     ELSE IF run # <<>> THEN Append(run, p)
     ELSE IF v.S = 1 /\ (synced \/ v.Payload[1] % 2 = 0)
       THEN <<p>>
     ELSE run

\* the bytes of a run in arrival order, and the marker packets in it
RECURSIVE runBytes(_)
runBytes(r) == IF r = <<>> THEN <<>> ELSE r[1].Payload \o runBytes(Tail(r))
runMarkers(r) == Cardinality({i \in 1..Len(r) : r[i].Marker})

WriteRTPClosed ==
  /\ lastErr' = errFileNotOpened
  /\ UNCHANGED <<sink, session, history, failures>>

\* a WriteRTP that drops the buffered fragments on an empty payload
WriteRTPEmpty_ClearsBuffer ==
  /\ lastErr' = errNone
  /\ obusIn' = 0
  /\ emptyIn' = TRUE
  /\ currentFrame' = <<>>
  /\ UNCHANGED <<sink, seenKeyFrame, isVP8, isAV1, frameCount, clockRate,
                 firstTimestamp, lastTimestamp, emitted, run, calls, drops,
                 slotsAtClose, anyKey, synced, tsIn, failures>>

\* "else if len(packet.Payload) == 0 { return nil }"
WriteRTPEmpty ==
  /\ lastErr' = errNone
  /\ obusIn' = 0
  /\ emptyIn' = TRUE
  /\ UNCHANGED <<sink, session, emitted, run, calls, drops, slotsAtClose,
                 anyKey, synced, tsIn, failures>>

WriteRTPVP8(pkt, failIdx, k) ==
  LET s == [seenKeyFrame |-> seenKeyFrame, currentFrame |-> currentFrame,
            firstTimestamp |-> firstTimestamp, lastTimestamp |-> lastTimestamp,
            frameCount |-> frameCount, snk |-> sink]
      r == vp8WriteRTP(s, pkt, failIdx, k)
      v == VP8Unmarshal(pkt.Payload)
      ok == r.wrote /\ r.err = errNone
      run1 == runAfter(pkt)
  IN /\ failIdx # 0 => r.err = errWrite
     /\ r.wrote => calls + drops < MaxSlots
     /\ Len(currentFrame) + Len(v.Payload) <= MaxFrameLen
     /\ seenKeyFrame' = r.seenKeyFrame
     /\ currentFrame' = r.currentFrame
     /\ firstTimestamp' = r.firstTimestamp
     /\ lastTimestamp' = r.lastTimestamp
     /\ frameCount' = r.frameCount
     /\ sink' = r.snk
     /\ lastErr' = r.err
     /\ failures' = IF r.err = errWrite THEN failures + 1 ELSE failures
     /\ anyKey' = (anyKey \/ (v.err = errNone /\ v.Payload[1] % 2 = 0))
     /\ synced' = (synced \/ (v.err = errNone /\ v.Payload[1] % 2 = 0 /\ v.S = 1))
     /\ calls' = IF r.wrote THEN calls + 1 ELSE calls
     /\ emitted' = IF ok THEN Append(emitted, [at |-> sink.pos,
                                               pts |-> calls + drops,
                                               payload |-> currentFrame \o v.Payload,
                                               want |-> runBytes(run1),
                                               first |-> IF run1 = <<>> THEN 0 ELSE run1[1].S,
                                               markers |-> runMarkers(run1)])
                   ELSE emitted
     /\ run' = IF ok THEN <<>> ELSE run1
     /\ tsIn' = pkt.Timestamp
     /\ UNCHANGED <<isVP8, isAV1, clockRate, drops, slotsAtClose, obusIn>>

\* where the record of the j-th OBU starts when the loop starts at pos
RECURSIVE obuOffset(_, _, _)
obuOffset(pos, obus, j) ==
  IF j = 1 THEN pos
  ELSE obuOffset(pos + frameHeaderSize + Len(obus[1]), Tail(obus), j - 1)

WriteRTPAV1(oc, failAt, k) ==
  IF oc.err # errNone
    THEN /\ failAt = 0
         /\ lastErr' = oc.err
         /\ obusIn' = 0
         /\ UNCHANGED <<sink, session, emitted, run, calls, drops,
                        slotsAtClose, anyKey, synced, failures>>
    ELSE LET r == writeFrames(sink, frameCount, oc.obus, 1, failAt, k)
             n == IF r.err = errNone THEN r.done ELSE r.done + 1
         IN /\ failAt # 0 => r.err = errWrite
            /\ calls + drops + n <= MaxSlots
            /\ sink' = r.snk
            /\ frameCount' = r.frameCount
            /\ lastErr' = r.err
            /\ failures' = IF r.err = errWrite THEN failures + 1 ELSE failures
            /\ calls' = calls + n
            /\ emitted' = emitted \o [j \in 1..r.done |->
                                        [at |-> obuOffset(sink.pos, oc.obus, j),
                                         pts |-> calls + drops + j - 1,
                                         payload |-> oc.obus[j],
                                         want |-> oc.obus[j],
                                         first |-> 1, markers |-> 1]]
            /\ obusIn' = Len(oc.obus)
            /\ UNCHANGED <<seenKeyFrame, isVP8, isAV1, currentFrame, clockRate,
                           firstTimestamp, lastTimestamp, run, drops,
                           slotsAtClose, anyKey, synced>>

\* the plans of a handler that makes up to n Write calls: which call
\* fails (0: none) and how many bytes the failing call still stores
FailPlans(n) == {<<0, 0>>} \cup ((1..n) \X {0, 1})

WriteRTP ==
  /\ phase = "open"
  /\ lastOp' = "WriteRTP"
  /\ UNCHANGED <<phase, out, caps, codecOpts, ioWriter, closeErr>>
  /\ \/ ioWriter = "nil" /\ emptyIn' = FALSE /\ WriteRTPClosed
     \/ /\ ioWriter # "nil"
        /\ \E pkt \in VP8Packets : Len(pkt.Payload) = 0 /\ WriteRTPEmpty
     \/ /\ ioWriter # "nil" /\ isVP8 /\ emptyIn' = FALSE
        /\ \E pkt \in VP8Packets, f \in FailPlans(2) :
             /\ Len(pkt.Payload) # 0
             /\ MayFail(f[1] # 0)
             /\ WriteRTPVP8(pkt, f[1], f[2])
     \/ /\ ioWriter # "nil" /\ ~isVP8 /\ isAV1 /\ emptyIn' = FALSE
        /\ \E oc \in AV1Outcomes, ts \in Timestamps, f \in FailPlans(2 * MaxObus) :
             /\ MayFail(f[1] # 0)
             /\ tsIn' = ts
             /\ WriteRTPAV1(oc, f[1], f[2])

(* ---------------------------- FrameDropped ----------------------------- *)
\* a FrameDropped that reserves two slots
frameDropped_Twice(fc) == Inc(Inc(fc))

\* FrameDropped: i.frameCount++
frameDropped(fc) == Inc(fc)

FrameDropped ==
  /\ phase = "open"
  /\ calls + drops < MaxSlots
  /\ frameCount' = frameDropped(frameCount)
  /\ drops' = drops + 1
  /\ lastOp' = "FrameDropped"
  /\ lastErr' = errNone
  /\ emptyIn' = FALSE
  /\ UNCHANGED <<phase, out, caps, codecOpts, sink, ioWriter, seenKeyFrame, isVP8, isAV1,
                 currentFrame, clockRate, firstTimestamp, lastTimestamp,
                 closeErr, emitted, run, calls, slotsAtClose, anyKey, synced,
                 tsIn, obusIn, failures>>

\* FrameDropped called 2^32 - 1 times in a row on a new writer: the caller
\* reserves that many slots in one piece.  drops counts the calls made one
\* at a time only.
slotBurst == <<Limb - 1, Limb - 1, 0, 0>>
frameDroppedTimes(fc, n) == Add(fc, n)

FrameDroppedBurst ==
  /\ phase = "open"
  /\ lastOp = "NewWith"
  /\ frameCount' = frameDroppedTimes(frameCount, slotBurst)
  /\ lastOp' = "FrameDropped"
  /\ lastErr' = errNone
  /\ emptyIn' = FALSE
  /\ UNCHANGED <<phase, out, caps, codecOpts, sink, ioWriter, seenKeyFrame, isVP8, isAV1,
                 currentFrame, clockRate, firstTimestamp, lastTimestamp,
                 closeErr, emitted, run, calls, drops, slotsAtClose, anyKey,
                 synced, tsIn, obusIn, failures>>

(* -------------------------------- Close -------------------------------- *)
\* float64(i.clockRate) * float64(i.frameCount); a counter of 2^16 or
\* more puts the rate of every session the model reaches beyond uint32
rateNumerator(rate, fc) ==
  IF rate = 0 \/ IsZero(fc) THEN 0
  ELSE IF ~IsZero(Tail(fc)) THEN overRate
  ELSE rate * Value(fc)

\* a patch that keeps the placeholder frame count
patchBytes_PlaceholderCount(rate, fc) ==
  PutUint32(Wide32(rate[1])) \o PutUint32(Wide32(rate[2])) \o PutUint32(Wide32(900))

\* a patch of 16 bytes that also rewrites the reserved field
patchBytes_WithReserved(rate, fc) ==
  PutUint32(Wide32(rate[1])) \o PutUint32(Wide32(rate[2])) \o PutUint32(uint32(fc))
    \o PutUint32(Wide32(1))

\* the 12 bytes Close stores at offset 16
patchBytes(rate, fc) ==
  PutUint32(Wide32(rate[1])) \o PutUint32(Wide32(rate[2])) \o PutUint32(uint32(fc))

\* Close that patches the header without probing for io.Seeker
closeWriter_PatchUnprobed(snk, o, fc, rate, step, k) ==
  LET s2 == SinkWrite([snk EXCEPT !.pos = patchOffset],
                      PutUint32(Wide32(rate[1])) \o PutUint32(Wide32(rate[2]))
                        \o PutUint32(uint32(fc)),
                      step = "write", k)
  IN IF step = "write" THEN [snk |-> s2, err |-> errWrite]
     ELSE IF o.closer
       THEN [snk |-> SinkClose(s2),
             err |-> IF step = "close" THEN errClose ELSE errNone]
     ELSE [snk |-> s2, err |-> errNone]

\* Close that reports an error for a sink that does not seek
closeWriter_SeekRequired(snk, o, fc, rate, step, k) ==
  LET s1 == SinkSeek(snk, patchOffset, step = "seek")
      s2 == SinkWrite(s1, patchBytes(rate, fc), step = "write", k)
  IN IF ~o.seeker THEN [snk |-> snk, err |-> errSeek]
     ELSE IF step = "seek" THEN [snk |-> s1, err |-> errSeek]
     ELSE IF step = "write" THEN [snk |-> s2, err |-> errWrite]
     ELSE IF o.closer
       THEN [snk |-> SinkClose(s2),
             err |-> IF step = "close" THEN errClose ELSE errNone]
     ELSE [snk |-> s2, err |-> errNone]

\* Close on a writer that holds sink snk of capabilities o: the header
\* patch when the sink seeks, then the sink's Close when it has one.  step
\* names the sink call that fails ("seek", "write", "close", or "none").
closeWriter(snk, o, fc, rate, step, k) ==
  LET s1 == SinkSeek(snk, patchOffset, step = "seek")
      s2 == SinkWrite(s1, patchBytes(rate, fc), step = "write", k)
      s3 == IF o.seeker THEN s2 ELSE snk
  IN IF o.seeker /\ step = "seek" THEN [snk |-> s1, err |-> errSeek]
     ELSE IF o.seeker /\ step = "write" THEN [snk |-> s2, err |-> errWrite]
     ELSE IF o.closer
       THEN [snk |-> SinkClose(s3),
             err |-> IF step = "close" THEN errClose ELSE errNone]
     ELSE [snk |-> s3, err |-> errNone]

\* a Close that does not look at ioWriter
isClosed_Never(w) == FALSE

\* "if i.ioWriter == nil": the writer was closed before
isClosed(w) == w = "nil"

Close ==
  /\ phase = "open"
  /\ lastOp' = "Close"
  /\ emptyIn' = FALSE
  /\ IF isClosed(ioWriter)
       THEN /\ lastErr' = errNone
            /\ UNCHANGED <<caps, sink, ioWriter, closeErr, slotsAtClose, failures>>
       ELSE \E o \in Caps, step \in {"none", "seek", "write", "close"} :
            \E k \in (IF step = "write" THEN {0, 4} ELSE {0}),
               rate \in (IF o.seeker
                          THEN GetBestMatch(rateNumerator(clockRate, frameCount),
                                            Sub32(lastTimestamp, firstTimestamp))
                          ELSE {<<0, 0>>}) :
              /\ MayFail(step # "none")
              /\ step \in {"seek", "write"} => o.seeker
              /\ step = "close" => o.closer
              /\ caps' = o
              /\ LET r == closeWriter(sink, o, frameCount, rate, step, k)
                 IN /\ sink' = r.snk
                    /\ lastErr' = r.err
                    /\ closeErr' = r.err
                    /\ failures' = IF step = "none" THEN failures ELSE failures + 1
              /\ ioWriter' = "nil"
              /\ slotsAtClose' = calls + drops
  /\ UNCHANGED <<phase, out, codecOpts, session, emitted, run, calls, drops,
                 anyKey, synced, tsIn, obusIn>>

(* ----------------------------- specification --------------------------- *)
Next == NewWith \/ WriteRTP \/ FrameDropped \/ Close

Spec == Init /\ [][Next]_vars

\* sessions in which the counter passes 2^32: the caller reserves
\* 2^32 - 1 slots before anything else is done with the new writer
Reserved == ~IsZero(Tail(frameCount))
WriteRTPWide == Reserved /\ WriteRTP
FrameDroppedWide == Reserved /\ FrameDropped
CloseWide == Reserved /\ Close
NextWide ==
  NewWith \/ FrameDroppedBurst \/ WriteRTPWide \/ FrameDroppedWide \/ CloseWide

SpecWide == Init /\ [][NextWide]_vars

(* -------------------------------- claims ------------------------------- *)
IsOpen == phase = "open" /\ ioWriter = "out"
IsClosed == phase = "open" /\ ioWriter = "nil"
Field(bytes, off, n) == SubSeq(bytes, off + 1, off + n)

\* C1: a VP8 session that has been given no keyframe packet has written no
\* frame record: writeFrame was never called, the frame-slot counter equals
\* the number of FrameDropped calls (0 without them) and the sink holds the
\* 32 bytes of the file header and nothing else.
C1_NoKeyframeNoFrame ==
  (phase = "open" /\ isVP8 /\ ~anyKey) =>
    /\ emitted = <<>> /\ calls = 0
    /\ frameCount = Wide64(drops)
    /\ Len(sink.bytes) = headerSize
    /\ IsOpen => (sink.bytes = IVFHeader(TRUE, FALSE) /\ sink.writes = 1)

C1_Witness ==
  /\ IsOpen /\ isVP8 /\ ~anyKey
  /\ lastOp = "WriteRTP" /\ lastErr = errNone /\ drops = 0

\* C2: every frame record a VP8 session has written holds exactly the
\* payloads, in arrival order, of the packets from the start-of-partition
\* packet that opened the run through the marker packet that completed it,
\* and that run holds one marker packet only.
C2_FrameIsOneRun ==
  isVP8 => \A i \in 1..Len(emitted) :
    /\ emitted[i].payload = emitted[i].want
    /\ emitted[i].first = 1
    /\ emitted[i].markers = 1

\* C3: the PTS field of every written frame record is the number of frame
\* slots (writeFrame calls plus FrameDropped calls) consumed before it, and
\* the frame-slot counter is the number of slots consumed so far.
C3_PtsIsSlotIndex ==
  /\ IsSmall(frameCount) /\ Value(frameCount) = calls + drops
  /\ \A i \in 1..Len(emitted) :
       Uint(Field(sink.bytes, emitted[i].at + 4, 8)) = emitted[i].pts

C3_Witness ==
  /\ Len(emitted) = 1 /\ drops = 1 /\ emitted[1].pts = 1 /\ isVP8

\* C4: after a Close that patched the header of a seekable sink (neither
\* the seek nor the patch write failed), the frame-count field at bytes
\* 24..27 is the number of writeFrame calls plus FrameDropped calls made
\* before that Close.
C4_FrameCountRoundTrip ==
  (IsClosed /\ caps.seeker /\ closeErr \in {errNone, errClose}) =>
    Uint(Field(sink.bytes, 24, 4)) = slotsAtClose

C4_Witness ==
  /\ IsClosed /\ caps.seeker /\ closeErr = errNone
  /\ slotsAtClose = 2 /\ Len(emitted) = 1 /\ drops >= 1

\* C5: a Close on a writer that was closed before returns no error and
\* leaves the sink as it was (no Write, Seek or Close call, the same bytes),
\* whatever the first Close returned.
C5_CloseIdempotent ==
  [][(IsClosed /\ lastOp' = "Close") => (lastErr' = errNone /\ sink' = sink)]_vars

C5_Witness ==
  /\ IsClosed /\ lastOp = "Close" /\ lastErr = errNone /\ closeErr = errSeek

\* C6: Close on a seekable sink with lastTimestamp = firstTimestamp fails
\* closed: it reports a rate-undefined error and leaves the framerate
\* numerator and denominator of the header as they were.
errRateUndefined == "rate undefined"
C6_ZeroSpanFailsClosed ==
  (IsClosed /\ caps.seeker /\ lastTimestamp = firstTimestamp
     /\ closeErr # errSeek) =>
    /\ closeErr = errRateUndefined
    /\ Field(sink.bytes, 16, 8) = Field(IVFHeader(isVP8, isAV1), 16, 8)

\* C7: the first Close on a sink that does not seek makes no Write and
\* leaves every sink byte as it was, so the header keeps the placeholders
\* of writeHeader: numerator 24, denominator 1, frame count 900.
C7_NoSeekNoPatch ==
  [][(IsOpen /\ lastOp' = "Close" /\ ~caps'.seeker) =>
       /\ sink'.bytes = sink.bytes /\ sink'.writes = sink.writes
       /\ Uint(Field(sink'.bytes, 16, 4)) = 24
       /\ Uint(Field(sink'.bytes, 20, 4)) = 1
       /\ Uint(Field(sink'.bytes, 24, 4)) = 900]_vars

C7_Witness ==
  /\ IsClosed /\ ~caps.seeker /\ lastOp = "Close"
  /\ Len(emitted) = 1 /\ drops = 1

\* the reader's side of the container: the records after the header, each
\* [len, pts, payload], and whether the bytes end with a complete record
RECURSIVE ParseRecords(_)
ParseRecords(bytes) ==
  IF Len(bytes) < frameHeaderSize THEN <<>>
  ELSE LET n == Uint(Field(bytes, 0, 4))
       IN IF Len(bytes) < frameHeaderSize + n THEN <<>>
          ELSE <<[len |-> n, pts |-> Uint(Field(bytes, 4, 8)),
                  payload |-> Field(bytes, frameHeaderSize, n)]>>
                 \o ParseRecords(SubSeq(bytes, frameHeaderSize + n + 1, Len(bytes)))
RECURSIVE RecordsSize(_)
RecordsSize(rs) ==
  IF rs = <<>> THEN 0 ELSE frameHeaderSize + rs[1].len + RecordsSize(Tail(rs))

\* C8: while the writer is open and no sink write has failed, the sink is
\* the 32-byte header, written once by NewWith, followed by one record per
\* written frame in emission order: a length equal to the payload length,
\* the PTS and the payload, with no other byte.
C8_SinkIsHeaderThenRecords ==
  (IsOpen /\ failures = 0) =>
    LET rs == ParseRecords(SubSeq(sink.bytes, headerSize + 1, Len(sink.bytes)))
    IN /\ Field(sink.bytes, 0, headerSize) = IVFHeader(isVP8, isAV1)
       /\ Len(sink.bytes) = headerSize + RecordsSize(rs)
       /\ Len(rs) = Len(emitted)
       /\ sink.writes = 1 + 2 * Len(emitted)
       /\ \A i \in 1..Len(rs) :
            /\ rs[i].payload = emitted[i].payload
            /\ rs[i].len = Len(emitted[i].payload)
            /\ rs[i].pts = emitted[i].pts

C8_Witness ==
  /\ IsOpen /\ failures = 0 /\ Len(emitted) = 2
  /\ Len(emitted[1].payload) = 2 /\ emitted[2].pts = 1

\* C9: an open session has exactly one of isVP8 and isAV1 set, isVP8 when
\* no codec option was given; no operation changes either flag afterwards;
\* and an option list with a codec option after a supported one makes
\* NewWith fail with errCodecAlreadySet.
C9_OneCodec ==
  /\ [](phase = "open" => (isVP8 # isAV1 /\ (codecOpts = <<>> => isVP8)))
  /\ []((phase # "new" /\ out = "writer" /\ Len(codecOpts) >= 2
           /\ codecOpts[1] \in {mimeTypeVP8, mimeTypeAV1})
          => (phase = "failed" /\ lastErr = errCodecAlreadySet))
  /\ [][phase = "open" => (isVP8' = isVP8 /\ isAV1' = isAV1)]_vars

C9_Witness ==
  /\ phase = "failed" /\ lastErr = errCodecAlreadySet
  /\ codecOpts = <<mimeTypeAV1, mimeTypeVP8>>

\* the error the options of a list with these codec options end with
ExpectedOptionError(cs) ==
  IF cs = <<>> THEN errNone
  ELSE IF cs[1] \notin {mimeTypeVP8, mimeTypeAV1} THEN errNoSuchCodec
  ELSE IF Len(cs) >= 2 THEN errCodecAlreadySet
  ELSE errNone

\* C10: NewWith with an absent sink fails with errFileNotOpened, NewWith
\* whose options fail returns the failing option's error, and in both cases
\* no writer is returned and the sink has received no byte and no call.
C10_FailedNewWithWritesNothing ==
  phase # "new" =>
    /\ out = "nil" => (phase = "failed" /\ lastErr = errFileNotOpened)
    /\ (out = "writer" /\ ExpectedOptionError(codecOpts) # errNone)
         => (phase = "failed" /\ lastErr = ExpectedOptionError(codecOpts))
    /\ (phase = "failed" /\ lastErr # errWrite)
         => (sink = NewSink /\ ioWriter = "nil")

C10_Witness ==
  /\ phase = "failed" /\ lastErr = errNoSuchCodec /\ out = "writer"
  /\ sink.writes = 0

\* C11: once Close has run, no operation changes the sink bytes or the
\* session fields (frame-slot counter, keyframe-seen flag, accumulation
\* buffer, timestamps), and WriteRTP returns errFileNotOpened.
C11_InertAfterClose ==
  [][IsClosed =>
       /\ sink'.bytes = sink.bytes
       /\ session' = session
       /\ lastOp' = "WriteRTP" => lastErr' = errFileNotOpened]_vars

\* C12: a WriteRTP that returns a sink write error has still consumed the
\* slot of the frame it failed on (the counter grew by that one beyond the
\* frames it wrote completely) and took nothing back from the sink; the
\* next frame written carries the counter, failed slot included, as PTS.
C12_FailedWriteKeepsSlot ==
  /\ [][(lastOp' = "WriteRTP" /\ lastErr' = errWrite) =>
          /\ Value(frameCount') =
               Value(frameCount) + (Len(emitted') - Len(emitted)) + 1
          /\ sink'.writes > sink.writes
          /\ SubSeq(sink'.bytes, 1, Len(sink.bytes)) = sink.bytes]_vars
  /\ [][(lastOp' = "WriteRTP" /\ Len(emitted') > Len(emitted)) =>
          LET e == emitted'[Len(emitted) + 1]
          IN /\ e.pts = Value(frameCount)
             /\ Uint(Field(sink'.bytes, e.at + 4, 8)) = Value(frameCount)]_vars

C12_Witness ==
  /\ IsOpen /\ failures = 1 /\ calls = 2 /\ drops = 0
  /\ Len(emitted) = 1 /\ emitted[1].pts = 1

\* C13: a WriteRTP that fails on a malformed payload (the VP8 or AV1 packet
\* parser or the OBU extractor returns an error) leaves the sink and every
\* session field as they were, so the packets that follow are processed
\* from the state the session had before it.
C13_MalformedLeavesState ==
  [][(lastOp' = "WriteRTP" /\ lastErr' \in {errShortPacket, errExtractor}) =>
       /\ session' = session
       /\ sink' = sink
       /\ emitted' = emitted /\ run' = run
       /\ ioWriter' = ioWriter]_vars

C13_Witness ==
  /\ IsOpen /\ isVP8 /\ lastOp = "WriteRTP" /\ lastErr = errShortPacket
  /\ seenKeyFrame /\ currentFrame # <<>>

\* C14: after the first Close on a sink that has a Close method, that
\* method was called exactly once and Close returned its result, whether
\* the sink seeks or not and whether the seek or the patch write failed.
C14_CloserCalledOnce ==
  (IsClosed /\ caps.closer) =>
    /\ sink.closes = 1
    /\ closeErr \in {errNone, errClose}

\* C15: FrameDropped adds one to the frame-slot counter and changes nothing
\* else: not the sink, the keyframe-seen flag, the accumulation buffer or
\* the two timestamps.
C15_DropOnlyCounts ==
  [][lastOp' = "FrameDropped" =>
       /\ frameCount' = Inc(frameCount)
       /\ sink' = sink
       /\ seenKeyFrame' = seenKeyFrame
       /\ currentFrame' = currentFrame
       /\ firstTimestamp' = firstTimestamp
       /\ lastTimestamp' = lastTimestamp]_vars

C15_Witness ==
  /\ IsOpen /\ lastOp = "FrameDropped" /\ currentFrame # <<>> /\ drops = 1

\* C16: an AV1 WriteRTP on an open writer that returns no error appends one
\* record per OBU the extractor returned, in its order, with consecutive
\* PTS from the counter, and adds their number to the counter; one whose
\* parser or extractor fails writes nothing and leaves the counter.
C16_OneRecordPerObu ==
  [][(IsOpen /\ isAV1 /\ lastOp' = "WriteRTP") =>
       /\ lastErr' = errNone =>
            LET n == obusIn'
                rs == ParseRecords(SubSeq(sink'.bytes, Len(sink.bytes) + 1,
                                          Len(sink'.bytes)))
            IN /\ Len(emitted') = Len(emitted) + n
               /\ Value(frameCount') = Value(frameCount) + n
               /\ SubSeq(sink'.bytes, 1, Len(sink.bytes)) = sink.bytes
               /\ Len(sink'.bytes) = Len(sink.bytes) + RecordsSize(rs)
               /\ Len(rs) = n
               /\ \A j \in 1..n :
                    /\ rs[j].payload = emitted'[Len(emitted) + j].want
                    /\ rs[j].pts = Value(frameCount) + j - 1
       /\ lastErr' \in {errShortPacket, errExtractor} =>
            (sink' = sink /\ frameCount' = frameCount /\ emitted' = emitted)]_vars

C16_Witness ==
  /\ IsOpen /\ isAV1 /\ lastOp = "WriteRTP" /\ lastErr = errNone
  /\ obusIn = 2 /\ Len(emitted) = 2 /\ emitted[1].want # emitted[2].want

\* C17: in a VP8 session seenKeyFrame is false until the first parsed
\* packet with keyframe bit 0 and S = 1 and true from then on; a packet
\* with keyframe bit 0 and S # 1 before that does not set it, and no
\* WriteRTP, FrameDropped or Close resets it.
C17_SyncAtFirstKeyStart ==
  /\ []((phase = "open" /\ isVP8) => (seenKeyFrame = synced))
  /\ [][seenKeyFrame => seenKeyFrame']_vars
  /\ [][(~seenKeyFrame /\ seenKeyFrame') =>
          (lastOp' = "WriteRTP" /\ lastErr' \in {errNone, errWrite})]_vars

C17_Witness ==
  /\ IsClosed /\ isVP8 /\ seenKeyFrame /\ drops = 1 /\ lastOp = "FrameDropped"

\* C18: in a VP8 session the accumulation buffer is empty while
\* seenKeyFrame is false.
C18_NoBufferBeforeSync ==
  (phase = "open" /\ isVP8 /\ ~seenKeyFrame) => currentFrame = <<>>

C18_Witness ==
  /\ IsOpen /\ isVP8 /\ ~seenKeyFrame /\ anyKey
  /\ lastOp = "WriteRTP" /\ lastErr = errNone

\* C19: a WriteRTP that wrote at least one complete frame leaves
\* lastTimestamp equal to the Timestamp of its packet, for VP8 and AV1.
C19_LastTimestampFollowsFrames ==
  [][(lastOp' = "WriteRTP" /\ Len(emitted') > Len(emitted)) =>
       lastTimestamp' = tsIn']_vars

\* C20: firstTimestamp changes only in the step that sets seenKeyFrame,
\* which makes it the Timestamp of that step's packet; once seenKeyFrame
\* is set no packet, drop, write failure or Close changes it.
C20_FirstTimestampOnce ==
  /\ [][(~seenKeyFrame /\ seenKeyFrame') =>
          (lastOp' = "WriteRTP" /\ firstTimestamp' = tsIn')]_vars
  /\ [][(firstTimestamp' # firstTimestamp) =>
          (~seenKeyFrame /\ seenKeyFrame')]_vars
  /\ [][seenKeyFrame => firstTimestamp' = firstTimestamp]_vars

C20_Witness ==
  /\ seenKeyFrame /\ firstTimestamp = 3000 /\ lastTimestamp = 6000
  /\ drops = 1 /\ failures = 1

\* C21: once a WriteRTP has returned a sink write error (some writeFrame
\* call did not complete), no later WriteRTP stores a byte in the sink.
C21_WriteErrorIsTerminal ==
  [][(phase = "open" /\ calls > Len(emitted) /\ lastOp' = "WriteRTP") =>
       sink'.bytes = sink.bytes]_vars

\* C22: the VP8 accumulation buffer holds bytes only while a run of
\* fragments is open, and it is empty after every WriteRTP that took a
\* marker packet into the buffer: one that emitted a frame, or one that
\* appended a marker packet to the run.
C22_BufferEmptyAfterMarker ==
  /\ [](isVP8 => (currentFrame # <<>> => run # <<>>))
  /\ [][(isVP8 /\ lastOp' = "WriteRTP"
           /\ \/ Len(emitted') > Len(emitted)
              \/ /\ Len(run') > Len(run)
                 /\ run'[Len(run')].Marker) =>
          currentFrame' = <<>>]_vars

\* C23: Close leaves every sink byte outside header offsets 16..27 as it
\* was and does not change the sink's length, and the FOURCC at offsets
\* 8..11 is "VP80" in a VP8 session and "AV01" in an AV1 session, before
\* and after Close.
C23_CloseTouchesOnlyPatch ==
  /\ [][(phase = "open" /\ lastOp' = "Close") =>
          /\ Len(sink'.bytes) = Len(sink.bytes)
          /\ \A i \in 1..Len(sink.bytes) :
               (i <= patchOffset \/ i > patchOffset + 12) =>
                 sink'.bytes[i] = sink.bytes[i]]_vars
  /\ [](phase = "open" =>
          /\ isVP8 => Field(sink.bytes, 8, 4) = fourccVP80
          /\ isAV1 => Field(sink.bytes, 8, 4) = fourccAV01)

C23_Witness ==
  /\ IsClosed /\ isAV1 /\ caps.seeker /\ closeErr = errNone
  /\ Len(emitted) = 2 /\ lastOp = "Close"

\* C24: the first Close returns an error exactly when one of its sink
\* calls failed, and the error is that call's: a seek or patch write error
\* needs a sink that seeks, a close error a sink that closes; a sink with
\* neither capability makes Close return nil.
C24_CloseErrorsAreSinkErrors ==
  [][(IsOpen /\ lastOp' = "Close") =>
       /\ lastErr' \in {errNone, errSeek, errWrite, errClose}
       /\ (lastErr' # errNone) <=> (failures' = failures + 1)
       /\ lastErr' = errSeek => (caps'.seeker /\ sink'.seeks = sink.seeks + 1)
       /\ lastErr' = errWrite => (caps'.seeker /\ sink'.writes = sink.writes + 1)
       /\ lastErr' = errClose => (caps'.closer /\ sink'.closes = sink.closes + 1)
       /\ (~caps'.seeker /\ ~caps'.closer) => lastErr' = errNone]_vars

C24_Witness ==
  /\ IsClosed /\ caps.probed /\ ~caps.seeker /\ ~caps.closer
  /\ closeErr = errNone /\ lastOp = "Close" /\ calls = 1

\* C26: a WriteRTP with a zero-length payload on an open writer returns
\* nil and changes neither the sink nor any session field, whatever its
\* marker bit and whatever is buffered; the frame being assembled stays
\* buffered and unwritten.
C26_EmptyPayloadIsNoOp ==
  [][emptyIn' =>
       /\ lastOp' = "WriteRTP" /\ lastErr' = errNone
       /\ sink' = sink
       /\ session' = session
       /\ emitted' = emitted /\ run' = run /\ calls' = calls
       /\ ioWriter' = ioWriter]_vars

C26_Witness ==
  /\ IsOpen /\ isVP8 /\ emptyIn /\ currentFrame # <<>> /\ emitted = <<>>

\* C25: the frame-count field a successful patch leaves at header offsets
\* 24..27 is the low 32 bits of the 64-bit frame-slot counter, the PTS
\* field of a record is the whole counter at its write, and the patched
\* count extended to 64 bits equals the counter exactly when the counter
\* is below 2^32.
C25_CountTruncatedPtsFull ==
  /\ [][(IsOpen /\ lastOp' = "Close" /\ caps'.seeker
           /\ lastErr' \in {errNone, errClose}) =>
          LET count == Limbs(Field(sink'.bytes, 24, 4))
          IN /\ count = SubSeq(frameCount, 1, 2)
             /\ (count \o <<0, 0>> = frameCount)
                  <=> IsZero(SubSeq(frameCount, 3, 4))]_vars
  /\ [][(lastOp' = "WriteRTP" /\ Len(emitted') > Len(emitted)) =>
          Limbs(Field(sink'.bytes, emitted'[Len(emitted) + 1].at + 4, 8))
            = frameCount]_vars

C25_Witness ==
  /\ IsClosed /\ caps.seeker /\ closeErr = errNone /\ lastOp = "Close"
  /\ frameCount = <<1, 0, 1, 0>> /\ Len(emitted) = 2

====
